---------------------------- MODULE Spec2Model ----------------------------
(***************************************************************************)
(* Model of the librarycat-rs ingestion pipeline (src/src/main_ii.rs, with *)
(* src/src/main.rs for the helpers the two files share).                   *)
(*                                                                         *)
(* A Rust String is a sequence of code points; a code point is a TLA+      *)
(* string naming it ("d", "1", " ", "U+0301", ...).                        *)
(*                                                                         *)
(* Three specifications share the module:                                  *)
(*   SpecPost    post_proc_keywords, one loop iteration per step           *)
(*   SpecFilter  load_tag_exclusions result -> exclude_tags                *)
(*   Spec        process_directory (the recursive walk)                    *)
(***************************************************************************)
EXTENDS Integers, Sequences, FiniteSets, TLC

VARIABLES
    \* post_proc_keywords (main_ii.rs:79-96)
    input,      \* the Vec<String> handed to post_proc_keywords
    pos,        \* how many elements the for loop has consumed
    result,     \* the result Vec being built
    emitted,    \* history: emitted[i] is what iteration i pushed (<<>> or <<x>>)
    \* generate_meta up to the filter (main_ii.rs:134-140)
    content,        \* cleaned_content
    csv,            \* what load_tag_exclusions returned: [ok, tags]
    tag_exclusions, \* the Vec after unwrap_or_else
    filtered,       \* cleaned_content_filtered
    fpc,            \* "load" -> "filter" -> "done" | "panic"
    \* process_directory (main_ii.rs:151-262) called from main (285-304)
    recursive,  \* the recursive parameter (main passes true, main_ii.rs:287)
    stack,      \* the live process_directory invocations, the root first
    outcome,    \* "running" | "returned" | "crashed": what main got
    final,      \* the (documents, errors) pair main got
    \* history of the walk
    handled,    \* per file: how its entry was dealt with
    idOf,       \* per file: <<id>> once generate_id gave an id for it
    meta,       \* per file: <<[loadOk, produced, filtered]>> once generate_meta ran
    unreadable, \* the directories whose read_dir failed
    fault,      \* per directory: <<[documents, errors]>> as a panic hit its closure
    ret,        \* per directory: <<[how, documents, errors, callerContinues]>> at its end
    afterFilterFault \* an entry or directory was processed after the filter panicked

postVars == <<input, pos, result, emitted>>
filterVars == <<content, csv, tag_exclusions, filtered, fpc>>

walkVars == <<recursive, stack, outcome, final, handled, idOf, meta,
              unreadable, fault, ret, afterFilterFault>>

vars == <<input, pos, result, emitted,
          content, csv, tag_exclusions, filtered, fpc,
          recursive, stack, outcome, final, handled, idOf, meta,
          unreadable, fault, ret, afterFilterFault>>

\* What the variables of a part hold under a specification of another part.
PostIdle == input = <<>> /\ pos = 0 /\ result = <<>> /\ emitted = <<>>

FilterIdle ==
    /\ content = <<>>
    /\ csv = [ok |-> FALSE, tags |-> <<>>]
    /\ tag_exclusions = <<>>
    /\ filtered = <<>>
    /\ fpc = "idle"

WalkIdle ==
    /\ recursive = FALSE /\ stack = <<>> /\ outcome = "idle"
    /\ final = <<>> /\ handled = <<>> /\ idOf = <<>> /\ meta = <<>>
    /\ unreadable = {} /\ fault = <<>> /\ ret = <<>> /\ afterFilterFault = FALSE

(***************************************************************************)
(* Bounds of the model.                                                    *)
(***************************************************************************)
MaxInputLen == 6    \* code points and separators of a post_proc_keywords input
MaxContentLen == 4  \* code points of the text handed to exclude_tags
MaxDepth == 1       \* nesting depth of the directory tree (0: the root alone)
MaxRand == 2        \* values rand::random() can give
MaxClock == 2       \* microsecond timestamps SystemTime::now() can give

Min(a, b) == IF a <= b THEN a ELSE b

(***************************************************************************)
(* Strings.                                                                *)
(***************************************************************************)
\* All sequences over alphabet A of length exactly n / at most n.
RECURSIVE SeqsOfLen(_, _)
SeqsOfLen(A, n) ==
    IF n = 0 THEN {<<>>}
    ELSE {<<a>> \o s : a \in A, s \in SeqsOfLen(A, n - 1)}

SeqsUpTo(A, n) == UNION {SeqsOfLen(A, k) : k \in 0..n}

RECURSIVE Flatten(_)
Flatten(ss) == IF ss = <<>> THEN <<>> ELSE Head(ss) \o Flatten(Tail(ss))

\* char::is_whitespace (White_Space): what str::trim strips.
IsWhitespace(c) == c \in {" ", "\t", "\n"}

\* Bytes of the UTF-8 encoding of a code point: str::len counts these.
Utf8Len(c) == IF c \in {"U+0301", "U+00E9", "U+00C9"} THEN 2 ELSE 1

RECURSIVE ByteLen(_)
ByteLen(s) == IF s = <<>> THEN 0 ELSE Utf8Len(Head(s)) + ByteLen(Tail(s))

RECURSIVE TrimStart(_)
TrimStart(s) ==
    IF s # <<>> /\ IsWhitespace(Head(s)) THEN TrimStart(Tail(s)) ELSE s

RECURSIVE TrimEnd(_)
TrimEnd(s) ==
    IF s # <<>> /\ IsWhitespace(s[Len(s)])
    THEN TrimEnd(SubSeq(s, 1, Len(s) - 1)) ELSE s

\* str::trim
Trim(s) == TrimEnd(TrimStart(s))

UpperOf ==
    [x \in {"d", "s", "e", "i", "n", "f", "a", "t", "y", "U+00E9"} |->
        CASE x = "d" -> "D" [] x = "s" -> "S" [] x = "e" -> "E"
          [] x = "i" -> "I" [] x = "n" -> "N" [] x = "f" -> "F"
          [] x = "a" -> "A" [] x = "t" -> "T" [] x = "y" -> "Y"
          [] x = "U+00E9" -> "U+00C9"]

\* char::to_uppercase / char::to_lowercase on the code points of the model.
CharToUpper(c) == IF c \in DOMAIN UpperOf THEN UpperOf[c] ELSE c
CharToLower(c) ==
    IF \E x \in DOMAIN UpperOf : UpperOf[x] = c
    THEN CHOOSE x \in DOMAIN UpperOf : UpperOf[x] = c
    ELSE c

\* str::to_uppercase / str::to_lowercase
ToUppercase(s) == [i \in 1..Len(s) |-> CharToUpper(s[i])]
ToLowercase(s) == [i \in 1..Len(s) |-> CharToLower(s[i])]

(***************************************************************************)
(* <f64 as FromStr>::from_str: [sign] ("inf" | "infinity" | "nan" |        *)
(* digits ["." digits] [exp] | "." digits [exp]), letters in any case.     *)
(***************************************************************************)
IsDigit(c) == c \in {"0", "1", "2", "3", "4", "5", "6", "7", "8", "9"}

AllDigits(s) == \A i \in 1..Len(s) : IsDigit(s[i])

\* Position of the first element of s that is in set C, or 0.
FirstIn(s, C) ==
    IF \E i \in 1..Len(s) : s[i] \in C
    THEN CHOOSE i \in 1..Len(s) : s[i] \in C /\ \A j \in 1..(i - 1) : s[j] \notin C
    ELSE 0

StripSign(s) == IF s # <<>> /\ Head(s) \in {"+", "-"} THEN Tail(s) ELSE s

IsMantissa(m) ==
    LET dot == FirstIn(m, {"."})
        int == IF dot = 0 THEN m ELSE SubSeq(m, 1, dot - 1)
        frac == IF dot = 0 THEN <<>> ELSE SubSeq(m, dot + 1, Len(m))
    IN  AllDigits(int) /\ AllDigits(frac) /\ Len(int) + Len(frac) >= 1

IsExponent(x) == LET d == StripSign(x) IN d # <<>> /\ AllDigits(d)

ParsesF64(s) ==
    LET body == StripSign(s)
        e == FirstIn(body, {"e", "E"})
    IN  \/ ToLowercase(body) \in {<<"i", "n", "f">>, <<"n", "a", "n">>,
                                  <<"i", "n", "f", "i", "n", "i", "t", "y">>}
        \/ IF e = 0 THEN IsMantissa(body)
           ELSE /\ IsMantissa(SubSeq(body, 1, e - 1))
                /\ IsExponent(SubSeq(body, e + 1, Len(body)))

(***************************************************************************)
(* unicode_segmentation: extended grapheme clusters.  A code point with    *)
(* Grapheme_Extend (a combining mark) joins the cluster before it.         *)
(***************************************************************************)
IsExtend(c) == c = "U+0301"

RECURSIVE Graphemes(_)
Graphemes(s) ==
    IF s = <<>> THEN <<>>
    ELSE LET rest == Tail(s)
             next == FirstIn(rest, {c \in {rest[i] : i \in 1..Len(rest)} : ~IsExtend(c)})
             k == IF next = 0 THEN Len(s) ELSE next
         IN  <<SubSeq(s, 1, k)>> \o Graphemes(SubSeq(s, k + 1, Len(s)))

\* main_ii.rs:67-77
capitalize_first_letter(in) ==
    LET iter == Graphemes(in)
    IN  IF iter # <<>>
        THEN ToUppercase(Head(iter)) \o Flatten(Tail(iter))
        ELSE in

\* PostProcTerm with the length test of the numeric branch loosened to
\* "at least 4".
PostProcTerm_LenAtLeast4(s) ==
    LET trimmed_string == Trim(s)
    IN  IF ParsesF64(trimmed_string)
        THEN IF ByteLen(trimmed_string) >= 4 THEN <<trimmed_string>> ELSE <<>>
        ELSE IF Len(Graphemes(trimmed_string)) >= 3 /\ trimmed_string # <<>>
             THEN <<capitalize_first_letter(trimmed_string)>>
             ELSE <<>>

\* PostProcTerm counting code points (chars().count()) instead of grapheme
\* clusters.
PostProcTerm_CountsChars(s) ==
    LET trimmed_string == Trim(s)
    IN  IF ParsesF64(trimmed_string)
        THEN IF ByteLen(trimmed_string) = 4 THEN <<trimmed_string>> ELSE <<>>
        ELSE IF Len(trimmed_string) >= 3 /\ trimmed_string # <<>>
             THEN <<capitalize_first_letter(trimmed_string)>>
             ELSE <<>>

\* The body of the for loop of post_proc_keywords (main_ii.rs:83-92): what
\* one element s pushes onto result.
PostProcTerm(s) ==
    LET trimmed_string == Trim(s)
    IN  IF ParsesF64(trimmed_string)
        THEN IF ByteLen(trimmed_string) = 4 THEN <<trimmed_string>> ELSE <<>>
        ELSE IF Len(Graphemes(trimmed_string)) >= 3 /\ trimmed_string # <<>>
             THEN <<capitalize_first_letter(trimmed_string)>>
             ELSE <<>>

\* main_ii.rs:79-96
RECURSIVE post_proc_keywords(_)
post_proc_keywords(in) ==
    IF in = <<>> THEN <<>>
    ELSE PostProcTerm(Head(in)) \o post_proc_keywords(Tail(in))

(***************************************************************************)
(* The regex crate, for the one pattern exclude_tags builds:               *)
(* \b(?:a1|a2|...)\b with the alternatives spliced in unescaped.           *)
(***************************************************************************)
\* \w of the regex crate (Unicode word character).
IsWordChar(c) == c \notin {" ", "\t", "\n", "-", "(", ")", ".", ","}

\* \b at offset p of text (0 = before the first code point).
WordBoundary(text, p) ==
    (p > 0 /\ IsWordChar(text[p])) # (p < Len(text) /\ IsWordChar(text[p + 1]))

\* One character of the pattern against one of the text: the terms are
\* spliced into the pattern as they are (main_ii.rs:56), so "." is the
\* regex dot, which matches any character but a line feed.
AtomMatches(atom, c) == IF atom = "." THEN c # "\n" ELSE atom = c

\* Alternative a of the group matches text[p+1 .. p+Len(a)] between two \b.
AltMatchesAt(text, a, p) ==
    /\ p + Len(a) <= Len(text)
    /\ \A i \in 1..Len(a) : AtomMatches(a[i], text[p + i])
    /\ WordBoundary(text, p)
    /\ WordBoundary(text, p + Len(a))

\* The first alternative, in order, that matches at offset p, or 0.
FirstAltAt(text, alts, p) ==
    IF \E k \in 1..Len(alts) : AltMatchesAt(text, alts[k], p)
    THEN CHOOSE j \in 1..Len(alts) :
             /\ AltMatchesAt(text, alts[j], p)
             /\ \A i \in 1..(j - 1) : ~AltMatchesAt(text, alts[i], p)
    ELSE 0

\* Regex::find_at: the leftmost match at or after offset start, taking the
\* first alternative that matches there (leftmost-first); <<>> if none.
FindAt(text, alts, start) ==
    LET here(p) == FirstAltAt(text, alts, p) # 0
    IN  IF \E p \in start..Len(text) : here(p)
        THEN LET p == CHOOSE q \in start..Len(text) :
                          here(q) /\ \A r \in start..(q - 1) : ~here(r)
             IN  <<p, p + Len(alts[FirstAltAt(text, alts, p)])>>
        ELSE <<>>

\* One call of Matches::next (Regex::find_iter).  it holds where the next
\* search starts (last_end), the end of the match before (last_match, or
\* -1), the matches yielded so far as <<start, end>> offsets, and whether
\* the iterator has ended.  An empty match right after a match is skipped.
MatchesNext(text, alts, it) ==
    IF it.done THEN it
    ELSE IF it.last_end > Len(text) THEN [it EXCEPT !.done = TRUE]
    ELSE LET m == FindAt(text, alts, it.last_end)
         IN  IF m = <<>> THEN [it EXCEPT !.done = TRUE]
             ELSE IF m[1] = m[2]
                  THEN IF m[2] = it.last_match
                       THEN [it EXCEPT !.last_end = m[2] + 1]
                       ELSE [it EXCEPT !.last_end = m[2] + 1, !.last_match = m[2],
                                       !.matches = Append(@, m)]
                  ELSE [it EXCEPT !.last_end = m[2], !.last_match = m[2],
                                  !.matches = Append(@, m)]

\* n calls of Matches::next, one after the other.
RECURSIVE MatchesNextTimes(_, _, _, _)
MatchesNextTimes(text, alts, it, n) ==
    IF n = 0 \/ it.done THEN it
    ELSE IF n = 1 THEN MatchesNext(text, alts, it)
    ELSE MatchesNextTimes(text, alts,
                          MatchesNextTimes(text, alts, it, n \div 2), n - (n \div 2))

\* Regex::find_iter run to its end: every call moves last_end forward, so
\* Len(text) + 2 calls end it.
FindIter(text, alts) ==
    MatchesNextTimes(text, alts,
                     [last_end |-> 0, last_match |-> -1, matches |-> <<>>, done |-> FALSE],
                     Len(text) + 2).matches

\* Regex::replace_all(text, ""): text without the matched spans.
RECURSIVE KeepRange(_, _, _, _)
KeepRange(text, drop, lo, hi) ==
    IF lo > hi THEN <<>>
    ELSE IF lo = hi THEN (IF lo \in drop THEN <<>> ELSE <<text[lo]>>)
    ELSE LET mid == (lo + hi) \div 2
         IN  KeepRange(text, drop, lo, mid) \o KeepRange(text, drop, mid + 1, hi)

\* text without the positions in drop.
KeepPositions(text, drop, i) == KeepRange(text, drop, i, Len(text))

ReplaceAllEmpty(text, alts) ==
    LET ms == FindIter(text, alts)
        drop == UNION {(ms[k][1] + 1)..ms[k][2] : k \in 1..Len(ms)}
    IN  KeepPositions(text, drop, 1)

\* main_ii.rs:51-55: each exclusion and the exclusion with "s" appended, then
\* trimmed and lowercased.
RECURSIVE ExclusionPatterns(_)
ExclusionPatterns(exclusions) ==
    IF exclusions = <<>> THEN <<>>
    ELSE LET e == Head(exclusions)
         IN  <<ToLowercase(Trim(e)), ToLowercase(Trim(e \o <<"s">>))>>
                 \o ExclusionPatterns(Tail(exclusions))

\* The alternatives of "\b(?:" + join("|") + ")\b" (main_ii.rs:56): an empty
\* join leaves the group with the one empty alternative.
Alternatives(patterns) == IF patterns = <<>> THEN << <<>> >> ELSE patterns

\* Regex::new (main_ii.rs:57) fails on a pattern with an unclosed group.
RegexIsValid(patterns) ==
    \A k \in 1..Len(patterns) :
        LET a == patterns[k]
            opens == Cardinality({i \in 1..Len(a) : a[i] = "("})
            closes == Cardinality({i \in 1..Len(a) : a[i] = ")"})
        IN  opens = closes

\* main_ii.rs:57: .expect("Invalid regex pattern") panics.
exclude_tags_panics(exclusions) == ~RegexIsValid(ExclusionPatterns(exclusions))

\* main_ii.rs:49-60, when the pattern compiles.
exclude_tags(text, exclusions) ==
    LET lower_content == ToLowercase(text)
        exclusion_patterns == ExclusionPatterns(exclusions)
    IN  ReplaceAllEmpty(lower_content, Alternatives(exclusion_patterns))

(***************************************************************************)
(* SpecFilter: generate_meta from the load of the exclusion list to the    *)
(* filtered text (main_ii.rs:134-140).                                     *)
(***************************************************************************)
ContentAlphabet == {"d", "s", "D", "-"}

\* Exclusion terms a CSV row can hold: words, an upper-case word, a term
\* with trailing whitespace, terms with non-word characters, a term with a
\* dot, the empty field and a term that leaves the pattern malformed.
ExclusionTerms ==
    {<<"d">>, <<"s">>, <<"d", "s">>, <<"d", "d">>, <<"D">>,
     <<"d", " ">>, <<"-">>, <<"d", "-", "d">>, <<"d", ".">>, <<>>, <<"(">>}

ExclusionLists ==
    {<<>>} \cup {<<t>> : t \in ExclusionTerms}
           \cup {<<t, u>> : t \in ExclusionTerms, u \in ExclusionTerms}

\* Result<Vec<String>, csv::Error> of load_tag_exclusions (main_ii.rs:31-47)
LoadResults ==
    {[ok |-> FALSE, tags |-> <<>>]} \cup {[ok |-> TRUE, tags |-> l] : l \in ExclusionLists}

FilterInit ==
    /\ content \in SeqsUpTo(ContentAlphabet, MaxContentLen)
    /\ csv \in LoadResults
    /\ tag_exclusions = <<>>
    /\ filtered = <<>>
    /\ fpc = "load"
    /\ PostIdle
    /\ WalkIdle

\* main_ii.rs:134-137: load_tag_exclusions(..).unwrap_or_else(|e| Vec::new())
LoadTagExclusions ==
    /\ fpc = "load"
    /\ tag_exclusions' = IF csv.ok THEN csv.tags ELSE <<>>
    /\ fpc' = "filter"
    /\ UNCHANGED <<content, csv, filtered>>
    /\ UNCHANGED postVars
    /\ UNCHANGED walkVars

\* main_ii.rs:140: exclude_tags returns the filtered text.
ExcludeTagsReturns ==
    /\ fpc = "filter"
    /\ ~exclude_tags_panics(tag_exclusions)
    /\ filtered' = exclude_tags(content, tag_exclusions)
    /\ fpc' = "done"
    /\ UNCHANGED <<content, csv, tag_exclusions>>
    /\ UNCHANGED postVars
    /\ UNCHANGED walkVars

\* main_ii.rs:57: the expect in exclude_tags panics out of generate_meta.
ExcludeTagsPanics ==
    /\ fpc = "filter"
    /\ exclude_tags_panics(tag_exclusions)
    /\ fpc' = "panic"
    /\ UNCHANGED <<content, csv, tag_exclusions, filtered>>
    /\ UNCHANGED postVars
    /\ UNCHANGED walkVars

FilterNext == LoadTagExclusions \/ ExcludeTagsReturns \/ ExcludeTagsPanics

SpecFilter == FilterInit /\ [][FilterNext]_vars

(***************************************************************************)
(* SpecPost: post_proc_keywords on every input within the bounds.          *)
(***************************************************************************)
PostAlphabet == {"1", "e", " ", "U+0301"}

\* Separates the elements of an input written out as one sequence.
Sep == "|"

\* The Vec<String> written out as flat: its elements, Sep between them; the
\* empty flat is the empty Vec.
RECURSIVE SplitTerms(_)
SplitTerms(flat) ==
    IF flat = <<>> THEN <<>>
    ELSE LET k == FirstIn(flat, {Sep})
         IN  IF k = 0 THEN <<flat>>
             ELSE IF k = Len(flat) THEN <<SubSeq(flat, 1, k - 1), <<>> >>
             ELSE <<SubSeq(flat, 1, k - 1)>> \o SplitTerms(SubSeq(flat, k + 1, Len(flat)))

PostInit ==
    /\ \E n \in 0..MaxInputLen :
           \E flat \in [1..n -> PostAlphabet \cup {Sep}] : input = SplitTerms(flat)
    /\ pos = 0
    /\ result = <<>>
    /\ emitted = <<>>
    /\ FilterIdle
    /\ WalkIdle

\* One iteration of `for s in input` (main_ii.rs:82-93).
PostProcIter ==
    /\ pos < Len(input)
    /\ pos' = pos + 1
    /\ result' = result \o PostProcTerm(input[pos + 1])
    /\ emitted' = Append(emitted, PostProcTerm(input[pos + 1]))
    /\ UNCHANGED input
    /\ UNCHANGED filterVars
    /\ UNCHANGED walkVars

PostNext == PostProcIter

SpecPost == PostInit /\ [][PostNext]_vars

(***************************************************************************)
(* KeywordRanker: TfIdf::new(UnprocessedDocuments(..)).get_ranked_words(n) *)
(* of the keyword_extraction crate, from its contract: the words of the    *)
(* one document without punctuation and stop words, by descending          *)
(* frequency, ties in order of first occurrence, at most n of them.        *)
(***************************************************************************)
\* main_ii.rs:126-129, the punctuation of the model's code points.
Punctuation == {".", ",", ":", ";", "!", "?", "(", ")", "-"}

\* stop_words::get(LANGUAGE::English), the entries the model's letters spell.
StopWords == {<<"a">>, <<"a", "s">>}

IsSeparator(c) == IsWhitespace(c) \/ c \in Punctuation

\* The positions in lo..hi where a word starts, ascending.
RECURSIVE WordStarts(_, _, _)
WordStarts(text, lo, hi) ==
    IF lo > hi THEN <<>>
    ELSE IF lo = hi
         THEN (IF ~IsSeparator(text[lo]) /\ (lo = 1 \/ IsSeparator(text[lo - 1]))
               THEN <<lo>> ELSE <<>>)
    ELSE LET mid == (lo + hi) \div 2
         IN  WordStarts(text, lo, mid) \o WordStarts(text, mid + 1, hi)

\* The word that starts at position i: up to the next separator.
WordAt(text, i) ==
    LET rest == SubSeq(text, i, Len(text))
        k == FirstIn(rest, {c \in {rest[j] : j \in 1..Len(rest)} : IsSeparator(c)})
    IN  IF k = 0 THEN rest ELSE SubSeq(rest, 1, k - 1)

\* The maximal runs of text without whitespace and punctuation.
Tokens(text) ==
    LET starts == WordStarts(text, 1, Len(text))
    IN  [j \in 1..Len(starts) |-> WordAt(text, starts[j])]

\* <<word, frequency>> for each distinct word of toks that is no stop word,
\* in order of first occurrence.
RECURSIVE Scored(_, _)
Scored(toks, seen) ==
    IF toks = <<>> THEN <<>>
    ELSE LET w == Head(toks)
         IN  IF w \in seen \/ w \in StopWords THEN Scored(Tail(toks), seen)
             ELSE << <<w, 1 + Cardinality({i \in 2..Len(toks) : toks[i] = w})>> >>
                      \o Scored(Tail(toks), seen \cup {w})

\* Stable insertion of a scored word into a list sorted by descending score.
RECURSIVE InsertRanked(_, _)
InsertRanked(sorted, sw) ==
    IF sorted = <<>> THEN <<sw>>
    ELSE IF Head(sorted)[2] >= sw[2]
         THEN <<Head(sorted)>> \o InsertRanked(Tail(sorted), sw)
         ELSE <<sw>> \o sorted

RECURSIVE RankAll(_, _)
RankAll(scored, sorted) ==
    IF scored = <<>> THEN sorted
    ELSE RankAll(Tail(scored), InsertRanked(sorted, Head(scored)))

get_ranked_words(text, n) ==
    LET ranked == RankAll(Scored(Tokens(text), {}), <<>>)
    IN  [i \in 1..Min(n, Len(ranked)) |-> ranked[i][1]]

(***************************************************************************)
(* generate_meta and generate_id.                                          *)
(***************************************************************************)
\* main_ii.rs:146: the number of ranked words generate_meta asks for.
TopK == 50

\* main_ii.rs:25-29
Document(filename, keywords) == [filename |-> filename, keywords |-> keywords]

\* unwrap_or_else falling back to a list that holds the term "d".
LoadedExclusions_FallsBackToTerm(loaded) ==
    IF loaded.ok THEN loaded.tags ELSE << <<"d">> >>

\* main_ii.rs:134-137
LoadedExclusions(loaded) == IF loaded.ok THEN loaded.tags ELSE <<>>

\* main_ii.rs:140, the text handed to the ranker.
FilteredContent(text, loaded) == exclude_tags(text, LoadedExclusions(loaded))

\* generate_meta asking the ranker for one word too many.
generate_meta_TopKPlusOne(filename, text, loaded) ==
    Document(filename,
             post_proc_keywords(get_ranked_words(FilteredContent(text, loaded), TopK + 1)))

\* main_ii.rs:124-149, when exclude_tags does not panic.
generate_meta(filename, text, loaded) ==
    Document(filename,
             post_proc_keywords(get_ranked_words(FilteredContent(text, loaded), TopK)))

\* main_ii.rs:113-122: format!("{}_{}", timestamp, random_number); the pair
\* stands for the string, which the "_" between two numbers makes injective.
generate_id(timestamp, random_number) == <<timestamp, random_number>>

(***************************************************************************)
(* The directory tree.  A directory above the deepest level holds k.pdf,   *)
(* k.epub and one subdirectory; the deepest directory holds k.pdf.         *)
(***************************************************************************)
Depths == 0..MaxDepth
Entries(k) ==
    IF k < MaxDepth THEN {<<"pdf", k>>, <<"epub", k>>, <<"dir", k + 1>>}
    ELSE {<<"pdf", k>>}
Files == {e \in UNION {Entries(k) : k \in Depths} : e[1] # "dir"}

\* file_name (main_ii.rs:169)
Name(e) ==
    <<ToString(e[2])>> \o
        (CASE e[1] = "pdf" -> <<".", "p", "d", "f">>
           [] e[1] = "epub" -> <<".", "e", "p", "u", "b">>
           [] OTHER -> <<>>)

\* str::ends_with
EndsWith(name, suffix) ==
    /\ Len(name) >= Len(suffix)
    /\ SubSeq(name, Len(name) - Len(suffix) + 1, Len(name)) = suffix

IsPdf(e) == EndsWith(Name(e), <<".", "p", "d", "f">>)
IsEpub(e) == EndsWith(Name(e), <<".", "e", "p", "u", "b">>)
\* Path::is_dir
IsDir(e) == e[1] = "dir"

\* The k-th three-letter word over d, s, e, a.
Letters == <<"d", "s", "e", "a">>
Word(k) ==
    <<Letters[((k \div 16) % 4) + 1], Letters[((k \div 4) % 4) + 1], Letters[(k % 4) + 1]>>

\* A text of TopK + 1 distinct words.
LongText == Flatten([k \in 1..(TopK + 1) |-> Word(k - 1) \o <<" ">>])

\* The text extraction gives for a file that extracts.
Content(e) ==
    IF e = <<"epub", 0>> THEN LongText
    ELSE IF IsPdf(e) THEN <<"D", "s", " ", "d", "-", "s", "e", "e", " ", "1", "1", "1", "1">>
    ELSE <<"S", "e", "a", "s", " ", "a", " ", "d", "s", " ", "1", "1">>

\* What load_tag_exclusions can return during a walk: an error, a list with
\* the term "d", a list whose term leaves the pattern malformed.
WalkLoadResults ==
    {[ok |-> FALSE, tags |-> <<>>],
     [ok |-> TRUE, tags |-> << <<"d">> >>],
     [ok |-> TRUE, tags |-> << <<"(">> >>]}

\* The load results under which exclude_tags returns.
LoadsThatFilter == {l \in WalkLoadResults : ~exclude_tags_panics(LoadedExclusions(l))}

\* generate_meta for every file of the tree and every load result, as
\* <<entry, loaded, filtered text, Document>>, computed once.
MetaTable ==
    {<<e, l, FilteredContent(Content(e), l), generate_meta(Name(e), Content(e), l)>> :
        e \in Files, l \in LoadsThatFilter}

MetaRow(e, loaded) == CHOOSE row \in MetaTable : row[1] = e /\ row[2] = loaded

(***************************************************************************)
(* process_directory.  A frame is one invocation: its directory (depth),   *)
(* where it stands (pc: "open" before fs::read_dir, "loop" in the for      *)
(* loop, "exit" once the closure under catch_unwind has ended), the        *)
(* entries the iterator has not yielded yet (todo), its documents and      *)
(* errors, and whether the documents mutex is poisoned.                    *)
(***************************************************************************)
NoDocuments == [i \in {} |-> {}]

Frame(k) ==
    [depth |-> k, pc |-> "open", todo |-> Entries(k), documents |-> NoDocuments,
     errors |-> <<>>, poisoned |-> FALSE]

Top == stack[Len(stack)]
SetTop(f) == [stack EXCEPT ![Len(stack)] = f]

\* HashMap::insert
Insert(documents, id, document) ==
    [i \in DOMAIN documents \cup {id} |-> IF i = id THEN document ELSE documents[i]]

\* HashMap::extend
Extend(documents, other) ==
    [i \in DOMAIN documents \cup DOMAIN other |->
        IF i \in DOMAIN other THEN other[i] ELSE documents[i]]

Message(kind, e) == [kind |-> kind, name |-> Name(e)]

None == "none"

FilterFaultSeen == \E f \in Files : handled[f] = "filter_fault"

\* Every step that processes an entry or opens a directory notes whether
\* the filter had panicked before.
NoteWork == afterFilterFault' = (afterFilterFault \/ FilterFaultSeen)

InLoop(e) == stack # <<>> /\ Top.pc = "loop" /\ e \in Top.todo

WalkInit ==
    /\ recursive \in BOOLEAN
    /\ stack = <<Frame(0)>>
    /\ outcome = "running"
    /\ final = [documents |-> NoDocuments, errors |-> <<>>]
    /\ handled = [f \in Files |-> None]
    /\ idOf = [f \in Files |-> <<>>]
    /\ meta = [f \in Files |-> <<>>]
    /\ unreadable = {}
    /\ fault = [k \in Depths |-> <<>>]
    /\ ret = [k \in Depths |-> <<>>]
    /\ afterFilterFault = FALSE
    /\ PostIdle
    /\ FilterIdle

\* main_ii.rs:159: fs::read_dir(directory_path) succeeds.
ReadDirOk ==
    /\ stack # <<>> /\ Top.pc = "open"
    /\ stack' = SetTop([Top EXCEPT !.pc = "loop"])
    /\ NoteWork
    /\ UNCHANGED <<postVars, filterVars, recursive, outcome, final, handled, idOf, meta,
                   unreadable, fault, ret>>

\* main_ii.rs:159: fs::read_dir fails; `?` ends the closure with Err, which
\* lines 199-201 do not look at.
ReadDirErr ==
    /\ stack # <<>> /\ Top.pc = "open"
    /\ stack' = SetTop([Top EXCEPT !.pc = "exit"])
    /\ unreadable' = unreadable \cup {Top.depth}
    /\ UNCHANGED <<postVars, filterVars, recursive, outcome, final, handled, idOf, meta,
                   fault, ret, afterFilterFault>>

\* main_ii.rs:160-166: the iterator yields Err for entry e.
EntryError(e) ==
    /\ InLoop(e)
    /\ stack' = SetTop([Top EXCEPT !.todo = @ \ {e},
                                   !.errors = Append(@, Message("entry", e))])
    /\ handled' = IF e \in Files THEN [handled EXCEPT ![e] = "entry_err"] ELSE handled
    /\ NoteWork
    /\ UNCHANGED <<postVars, filterVars, recursive, outcome, final, idOf, meta,
                   unreadable, fault, ret>>

\* main_ii.rs:169-175: the name of entry e is not UTF-8.
InvalidFileName(e) ==
    /\ InLoop(e)
    /\ stack' = SetTop([Top EXCEPT !.todo = @ \ {e},
                                   !.errors = Append(@, Message("name", e))])
    /\ handled' = IF e \in Files THEN [handled EXCEPT ![e] = "name_err"] ELSE handled
    /\ NoteWork
    /\ UNCHANGED <<postVars, filterVars, recursive, outcome, final, idOf, meta,
                   unreadable, fault, ret>>

\* The Err of a handler pushed, and then the loop left instead of continued.
HandleFileErr_LeavesLoop(e, kind) ==
    /\ InLoop(e)
    /\ stack' = SetTop([Top EXCEPT !.todo = @ \ {e}, !.pc = "exit",
                                   !.errors = Append(@, Message(kind, e))])
    /\ handled' = [handled EXCEPT ![e] = "err"]
    /\ NoteWork
    /\ UNCHANGED <<postVars, filterVars, recursive, outcome, final, idOf, meta,
                   unreadable, fault, ret>>

\* The Err of handle_pdf_file (main_ii.rs:214-222: the read or the
\* extraction fails) or of handle_epub_file (237-240), pushed by the caller
\* (178-180, 184-186).
HandleFileErr(e, kind) ==
    /\ InLoop(e)
    /\ stack' = SetTop([Top EXCEPT !.todo = @ \ {e},
                                   !.errors = Append(@, Message(kind, e))])
    /\ handled' = [handled EXCEPT ![e] = "err"]
    /\ NoteWork
    /\ UNCHANGED <<postVars, filterVars, recursive, outcome, final, idOf, meta,
                   unreadable, fault, ret>>

\* A panic in handle_pdf_file / handle_epub_file with no lock held: in the
\* extraction, in exclude_tags (the pattern built from what loaded is
\* malformed) or in the ranker.  catch_unwind (main_ii.rs:158) ends the
\* closure.
HandleFileFault(e, loaded, where) ==
    /\ InLoop(e)
    /\ where = "filter_fault" <=> exclude_tags_panics(LoadedExclusions(loaded))
    /\ stack' = SetTop([Top EXCEPT !.todo = @ \ {e}, !.pc = "exit"])
    /\ handled' = [handled EXCEPT ![e] = where]
    /\ meta' = IF where = "extract_fault" THEN meta
               ELSE [meta EXCEPT ![e] = <<[loadOk |-> loaded.ok, produced |-> FALSE,
                                          filtered |-> <<>>]>>]
    /\ fault' = [fault EXCEPT ![Top.depth] =
                     <<[documents |-> Top.documents, errors |-> Top.errors]>>]
    /\ NoteWork
    /\ UNCHANGED <<postVars, filterVars, recursive, outcome, final, idOf, unreadable, ret>>

\* main_ii.rs:225 / 243: generate_id panics ("Time went backwards") after
\* documents.lock().unwrap() has taken the lock: the mutex is poisoned.
HandleFileIdFault(e, loaded) ==
    /\ InLoop(e)
    /\ ~exclude_tags_panics(LoadedExclusions(loaded))
    /\ stack' = SetTop([Top EXCEPT !.todo = @ \ {e}, !.pc = "exit", !.poisoned = TRUE])
    /\ handled' = [handled EXCEPT ![e] = "id_fault"]
    /\ meta' = [meta EXCEPT ![e] = <<[loadOk |-> loaded.ok, produced |-> TRUE,
                                     filtered |-> MetaRow(e, loaded)[3]]>>]
    /\ fault' = [fault EXCEPT ![Top.depth] =
                     <<[documents |-> Top.documents, errors |-> Top.errors]>>]
    /\ NoteWork
    /\ UNCHANGED <<postVars, filterVars, recursive, outcome, final, idOf, unreadable, ret>>

\* handle_pdf_file / handle_epub_file return Ok (main_ii.rs:224-227,
\* 242-245): the document is inserted under a fresh call of generate_id.
HandleFileOk(e, loaded, timestamp, random_number) ==
    /\ InLoop(e)
    /\ ~exclude_tags_panics(LoadedExclusions(loaded))
    /\ LET id == generate_id(timestamp, random_number)
           document == MetaRow(e, loaded)[4]
       IN  /\ stack' = SetTop([Top EXCEPT !.todo = @ \ {e},
                                          !.documents = Insert(@, id, document)])
           /\ idOf' = [idOf EXCEPT ![e] = <<id>>]
    /\ handled' = [handled EXCEPT ![e] = "inserted"]
    /\ meta' = [meta EXCEPT ![e] = <<[loadOk |-> loaded.ok, produced |-> TRUE,
                                     filtered |-> MetaRow(e, loaded)[3]]>>]
    /\ NoteWork
    /\ UNCHANGED <<postVars, filterVars, recursive, outcome, final, unreadable, fault, ret>>

Randoms == 0..(MaxRand - 1)
Timestamps == 0..(MaxClock - 1)

\* main_ii.rs:177-181 with handle_pdf_file (208-228)
HandlePdfFile(e) ==
    /\ IsPdf(e)
    /\ \/ HandleFileErr(e, "pdf_read")
       \/ HandleFileErr(e, "pdf_extract")
       \/ HandleFileFault(e, [ok |-> FALSE, tags |-> <<>>], "extract_fault")
       \/ \E loaded \in WalkLoadResults :
              \/ HandleFileFault(e, loaded, "filter_fault")
              \/ HandleFileFault(e, loaded, "rank_fault")
              \/ HandleFileIdFault(e, loaded)
              \/ \E t \in Timestamps, r \in Randoms : HandleFileOk(e, loaded, t, r)

\* main_ii.rs:183-187 with handle_epub_file (231-246)
HandleEpubFile(e) ==
    /\ IsEpub(e)
    /\ \/ HandleFileErr(e, "epub")
       \/ \E loaded \in WalkLoadResults :
              \/ HandleFileFault(e, loaded, "filter_fault")
              \/ HandleFileFault(e, loaded, "rank_fault")
              \/ HandleFileIdFault(e, loaded)
              \/ \E t \in Timestamps, r \in Randoms : HandleFileOk(e, loaded, t, r)

\* main_ii.rs:189-190 with process_subdirectory (254): the recursive call.
EnterSubdirectory(e) ==
    /\ InLoop(e)
    /\ recursive /\ IsDir(e)
    /\ stack' = Append(SetTop([Top EXCEPT !.todo = @ \ {e}]), Frame(e[2]))
    /\ NoteWork
    /\ UNCHANGED <<postVars, filterVars, recursive, outcome, final, handled, idOf, meta,
                   unreadable, fault, ret>>

\* main_ii.rs:177-193: none of the three ifs applies to the entry.
SkipEntry(e) ==
    /\ InLoop(e)
    /\ ~IsPdf(e) /\ ~IsEpub(e) /\ ~(recursive /\ IsDir(e))
    /\ stack' = SetTop([Top EXCEPT !.todo = @ \ {e}])
    /\ NoteWork
    /\ UNCHANGED <<postVars, filterVars, recursive, outcome, final, handled, idOf, meta,
                   unreadable, fault, ret>>

\* The closure has ended: by the end of the loop, by Err or by a panic.
ClosureEnded == stack # <<>> /\ (Top.pc = "exit" \/ (Top.pc = "loop" /\ Top.todo = {}))

Caller == stack[Len(stack) - 1]

\* main_ii.rs:199-205 in a subdirectory, then process_subdirectory (255-258)
\* merges what it returned into the caller's documents and errors.
ReturnToCaller ==
    /\ ClosureEnded /\ Len(stack) > 1 /\ ~Top.poisoned
    /\ stack' = [i \in 1..(Len(stack) - 1) |->
                    IF i < Len(stack) - 1 THEN stack[i]
                    ELSE [Caller EXCEPT !.documents = Extend(@, Top.documents),
                                        !.errors = @ \o Top.errors]]
    /\ ret' = [ret EXCEPT ![Top.depth] =
                  <<[how |-> "ok", documents |-> Top.documents, errors |-> Top.errors,
                     callerContinues |-> TRUE]>>]
    /\ UNCHANGED <<postVars, filterVars, recursive, outcome, final, handled, idOf, meta,
                   unreadable, fault, afterFilterFault>>

\* main_ii.rs:203 in a subdirectory whose documents mutex is poisoned:
\* lock().unwrap() panics, and the panic unwinds through
\* process_subdirectory into the caller's closure, which its catch_unwind
\* ends.
PoisonPanicToCaller ==
    /\ ClosureEnded /\ Len(stack) > 1 /\ Top.poisoned
    /\ stack' = [i \in 1..(Len(stack) - 1) |->
                    IF i < Len(stack) - 1 THEN stack[i]
                    ELSE [Caller EXCEPT !.pc = "exit"]]
    /\ ret' = [ret EXCEPT ![Top.depth] =
                  <<[how |-> "panic", documents |-> NoDocuments, errors |-> <<>>,
                     callerContinues |-> FALSE]>>]
    /\ fault' = [fault EXCEPT ![Caller.depth] =
                    <<[documents |-> Caller.documents, errors |-> Caller.errors]>>]
    /\ UNCHANGED <<postVars, filterVars, recursive, outcome, final, handled, idOf, meta,
                   unreadable, afterFilterFault>>

\* main_ii.rs:199-205 in the root, and main gets Ok((documents, errors))
\* (289-301).
ReturnToMain ==
    /\ ClosureEnded /\ Len(stack) = 1 /\ ~Top.poisoned
    /\ stack' = <<>>
    /\ outcome' = "returned"
    /\ final' = [documents |-> Top.documents, errors |-> Top.errors]
    /\ ret' = [ret EXCEPT ![Top.depth] =
                  <<[how |-> "ok", documents |-> Top.documents, errors |-> Top.errors,
                     callerContinues |-> TRUE]>>]
    /\ UNCHANGED <<postVars, filterVars, recursive, handled, idOf, meta, unreadable, fault,
                   afterFilterFault>>

\* main_ii.rs:203 in the root with the documents mutex poisoned: the panic
\* leaves process_directory and main.
PoisonPanicToMain ==
    /\ ClosureEnded /\ Len(stack) = 1 /\ Top.poisoned
    /\ stack' = <<>>
    /\ outcome' = "crashed"
    /\ ret' = [ret EXCEPT ![Top.depth] =
                  <<[how |-> "panic", documents |-> NoDocuments, errors |-> <<>>,
                     callerContinues |-> FALSE]>>]
    /\ UNCHANGED <<postVars, filterVars, recursive, final, handled, idOf, meta, unreadable, fault,
                   afterFilterFault>>

AllEntries == UNION {Entries(k) : k \in Depths}

WalkNext ==
    \/ ReadDirOk
    \/ ReadDirErr
    \/ \E e \in AllEntries : EntryError(e)
    \/ \E e \in AllEntries : InvalidFileName(e)
    \/ \E e \in AllEntries : HandlePdfFile(e)
    \/ \E e \in AllEntries : HandleEpubFile(e)
    \/ \E e \in AllEntries : EnterSubdirectory(e)
    \/ \E e \in AllEntries : SkipEntry(e)
    \/ ReturnToCaller
    \/ PoisonPanicToCaller
    \/ ReturnToMain
    \/ PoisonPanicToMain

Spec == WalkInit /\ [][WalkNext]_vars

(***************************************************************************)
(* Claims about post_proc_keywords (SpecPost).                             *)
(***************************************************************************)
\* The trimmed text of the element iteration i consumed.
TrimmedInput(i) == Trim(input[i])

\* Grapheme clusters of t, counted from the code points: a cluster starts at
\* the first code point and at every code point that is not a combining mark.
ClusterStarts(t) == {i \in 1..Len(t) : i = 1 \/ ~IsExtend(t[i])}

\* t with its first grapheme cluster upper-cased and the rest as it was.
FirstClusterUppercased(t) ==
    LET later == ClusterStarts(t) \ {1}
        k == IF later = {} THEN Len(t)
             ELSE (CHOOSE i \in later : \A j \in later : i <= j) - 1
    IN  [i \in 1..Len(t) |-> IF i <= k THEN CharToUpper(t[i]) ELSE t[i]]

\* result is what the iterations pushed, in order.
ResultIsEmitted == result = Flatten(emitted) /\ Len(emitted) = pos

\* C8: a term that parses as a number after trimming is kept, as its trimmed
\* text, if and only if the trimmed text is exactly 4 characters long; a
\* numeric term of any other length contributes nothing to the keywords.
C8_NumericKeptIffLen4 ==
    /\ ResultIsEmitted
    /\ \A i \in 1..pos :
           ParsesF64(TrimmedInput(i)) =>
               emitted[i] = IF Len(TrimmedInput(i)) = 4
                            THEN <<TrimmedInput(i)>> ELSE <<>>

\* A numeric term of 4 characters was kept (after trimming) and a numeric
\* term of another length was discarded.
C8_Witness ==
    /\ pos = Len(input)
    /\ \E i \in 1..pos :
           /\ ParsesF64(TrimmedInput(i)) /\ Len(TrimmedInput(i)) = 4
           /\ result = <<TrimmedInput(i)>>
    /\ \E j \in 1..pos :
           /\ ParsesF64(TrimmedInput(j)) /\ Len(TrimmedInput(j)) # 4
           /\ emitted[j] = <<>>

\* C9: a trimmed term that does not parse as a number is kept if and only if
\* it has at least 3 grapheme clusters, and is kept with only its first
\* cluster upper-cased; with fewer clusters, or empty, it is discarded.
C9_WordKeptIff3Graphemes ==
    /\ ResultIsEmitted
    /\ \A i \in 1..pos :
           ~ParsesF64(TrimmedInput(i)) =>
               emitted[i] = IF Cardinality(ClusterStarts(TrimmedInput(i))) >= 3
                            THEN <<FirstClusterUppercased(TrimmedInput(i))>>
                            ELSE <<>>

\* A word of 3 clusters whose first cluster carries a combining mark was
\* kept capitalised, and a non-empty word of fewer than 3 clusters dropped.
C9_Witness ==
    /\ pos = Len(input)
    /\ \E i \in 1..pos :
           /\ ~ParsesF64(TrimmedInput(i))
           /\ Cardinality(ClusterStarts(TrimmedInput(i))) = 3
           /\ Len(TrimmedInput(i)) = 4
           /\ IsExtend(TrimmedInput(i)[2])
           /\ emitted[i] # <<>> /\ emitted[i][1] # TrimmedInput(i)
    /\ \E j \in 1..pos :
           /\ ~ParsesF64(TrimmedInput(j))
           /\ TrimmedInput(j) # <<>>
           /\ emitted[j] = <<>>

(***************************************************************************)
(* Claims about exclude_tags (SpecFilter).                                 *)
(***************************************************************************)
\* The spans i..j (positions of text) that hold word w with a word boundary
\* on both sides.
WholeWordOccurrences(text, w) ==
    {<<i, j>> \in (1..Len(text)) \X (1..Len(text)) :
        /\ j - i + 1 = Len(w)
        /\ SubSeq(text, i, j) = w
        /\ WordBoundary(text, i - 1)
        /\ WordBoundary(text, j)}

\* The lower-cased text without every whole-word occurrence of a term of
\* terms or of the term followed by "s", compared without regard to case.
WithoutWholeWords(text, terms) ==
    LET lower == ToLowercase(text)
        words == UNION {{ToLowercase(terms[k]), ToLowercase(terms[k]) \o <<"s">>} :
                            k \in 1..Len(terms)}
        spans == UNION {WholeWordOccurrences(lower, w) : w \in words}
        gone == UNION {sp[1]..sp[2] : sp \in spans}
    IN  KeepPositions(lower, gone, 1)

\* A term made of word characters only, and not empty.
IsPlainWord(t) == t # <<>> /\ \A i \in 1..Len(t) : IsWordChar(t[i])

\* C7: for any exclusion terms, exclude_tags returns the lower-cased text
\* with every whole-word occurrence of a term, or of the term with a
\* trailing "s", removed and nothing else.
C7_WholeWordsRemovedOnly ==
    fpc = "done" => filtered = WithoutWholeWords(content, tag_exclusions)

\* The term "d." : the text "ds", which holds no "d." and no "d.s", has
\* been removed whole.
C7_DotTermRemovesOtherWord ==
    /\ fpc = "done"
    /\ tag_exclusions = << <<"d", ".">> >>
    /\ content = <<"d", "s">>
    /\ filtered = <<>>

\* Where exclude_tags does what C7 says: every term is non-empty and made
\* of word characters only.
PlainWordsRemoved ==
    (fpc = "done" /\ \A k \in 1..Len(tag_exclusions) : IsPlainWord(tag_exclusions[k]))
        => filtered = WithoutWholeWords(content, tag_exclusions)

(***************************************************************************)
(* Claims about process_directory (Spec).                                  *)
(***************************************************************************)
\* The frame on top of the stack after the step.
TopAfter == stack'[Len(stack')]

\* A handler returned Err for file f in this step.
FailsNow(f) == handled[f] = None /\ handled'[f] = "err"

\* A handler returned Ok for file f in this step.
SucceedsNow(f) == handled[f] = None /\ handled'[f] = "inserted"

\* The step of a failing file: one message more, the documents as they
\* were, the loop goes on with the entries that were left.
C1_FailingStep(f) ==
    FailsNow(f) =>
        /\ Len(stack') = Len(stack)
        /\ Len(TopAfter.errors) = Len(Top.errors) + 1
        /\ SubSeq(TopAfter.errors, 1, Len(Top.errors)) = Top.errors
        /\ TopAfter.errors[Len(TopAfter.errors)].name = Name(f)
        /\ TopAfter.documents = Top.documents
        /\ TopAfter.pc = "loop"
        /\ TopAfter.todo = Top.todo \ {f}

\* The step of a file that extracts, whatever its siblings did before: its
\* own Document is in the documents under the id generated for it.
C1_SiblingStep(g) ==
    SucceedsNow(g) =>
        /\ idOf'[g] # <<>>
        /\ idOf'[g][1] \in DOMAIN TopAfter.documents
        /\ TopAfter.documents[idOf'[g][1]].filename = Name(g)
        /\ TopAfter.errors = Top.errors

\* C1: when handle_pdf_file or handle_epub_file returns Err for a .pdf or
\* .epub entry, exactly one message is appended to the errors, no Document
\* is inserted for the file, and the loop continues with every entry left;
\* an entry that extracts, before or after the failing one, gets its own
\* entry in the documents.
C1_FailureIsRecordedAndPassedOver ==
    [][\A f \in Files : C1_FailingStep(f) /\ C1_SiblingStep(f)]_vars

\* The walk returned; in the root 0.pdf failed and 0.epub was inserted, in
\* the subdirectory 1.pdf was inserted: one message, two documents.
C1_Witness ==
    /\ outcome = "returned"
    /\ handled[<<"pdf", 0>>] = "err"
    /\ handled[<<"epub", 0>>] = "inserted"
    /\ handled[<<"pdf", 1>>] = "inserted"
    /\ Len(final.errors) = 1
    /\ final.errors[1].name = Name(<<"pdf", 0>>)
    /\ Cardinality(DOMAIN final.documents) = 2

\* Every file of the tree was inserted and the recursive walk returned.
C2_CleanRun ==
    /\ recursive
    /\ outcome = "returned"
    /\ \A f \in Files : handled[f] = "inserted"

\* C2: a recursive walk over a tree of N .pdf and .epub files, none of which
\* fails, returns documents with exactly N entries, one per file.
C2_OneEntryPerFile ==
    C2_CleanRun => Cardinality(DOMAIN final.documents) = Cardinality(Files)

\* The errors hold a message that names entry e.
Names(errors, e) == \E i \in 1..Len(errors) : errors[i].name = Name(e)

\* C3: for every directory that read_dir could not open, the errors the
\* walk returns hold a message about it.
C3_UnreadableDirectoryRecorded ==
    outcome = "returned" =>
        \A k \in unreadable : Names(final.errors, <<"dir", k>>)

\* C4: a panic while a directory's entries are processed is caught in that
\* invocation: it returns Ok with the documents and errors it had when the
\* panic hit, its caller goes on with its next entry, and the process does
\* not crash.
C4_FaultsCaught ==
    /\ outcome # "crashed"
    /\ \A k \in Depths :
           (fault[k] # <<>> /\ ret[k] # <<>>) =>
               /\ ret[k][1].how = "ok"
               /\ ret[k][1].documents = fault[k][1].documents
               /\ ret[k][1].errors = fault[k][1].errors
               /\ ret[k][1].callerContinues

\* C5: once exclude_tags has panicked on a malformed pattern, no other entry
\* or directory is processed and main gets no documents back.
C5_InvalidPatternIsFatal ==
    FilterFaultSeen => (outcome # "returned" /\ ~afterFilterFault)

\* What generate_meta gives for file f from its lower-cased text, nothing
\* removed; computed once for every file.
UnfilteredDocuments ==
    {<<f, Document(Name(f),
                   post_proc_keywords(get_ranked_words(ToLowercase(Content(f)), TopK)))>> :
        f \in Files}

UnfilteredDocument(f) == (CHOOSE row \in UnfilteredDocuments : row[1] = f)[2]

\* generate_meta runs for file f in this step, and load_tag_exclusions fails.
LoadFailsNow(f) == meta[f] = <<>> /\ meta'[f] # <<>> /\ ~meta'[f][1].loadOk

\* C6: when load_tag_exclusions fails, exclude_tags does not panic and gives
\* back exactly the lower-cased text; unless the ranker or generate_id
\* panics, the Document made from that text is inserted and the loop goes on
\* with the entries left.
C6_LoadFailureDegradesToNoExclusions ==
    [][\A f \in Files :
          LoadFailsNow(f) =>
              /\ handled'[f] \in {"inserted", "id_fault", "rank_fault"}
              /\ meta'[f][1].produced =>
                     meta'[f][1].filtered = ToLowercase(Content(f))
              /\ handled'[f] = "inserted" =>
                     /\ meta'[f][1].produced
                     /\ TopAfter.pc = "loop"
                     /\ TopAfter.todo = Top.todo \ {f}
                     /\ idOf'[f][1] \in DOMAIN TopAfter.documents
                     /\ TopAfter.documents[idOf'[f][1]] = UnfilteredDocument(f)]_vars

\* The list failed to load for 0.pdf, whose text holds upper case and the
\* word "d"; its Document and that of 0.epub came back.
C6_Witness ==
    /\ outcome = "returned"
    /\ handled[<<"pdf", 0>>] = "inserted"
    /\ ~meta[<<"pdf", 0>>][1].loadOk
    /\ meta[<<"pdf", 0>>][1].filtered # Content(<<"pdf", 0>>)
    /\ handled[<<"epub", 0>>] = "inserted"
    /\ idOf[<<"pdf", 0>>][1] # idOf[<<"epub", 0>>][1]
    /\ final.documents[idOf[<<"pdf", 0>>][1]] = UnfilteredDocument(<<"pdf", 0>>)

\* The Documents held by the live invocations and by what main got.
AllDocuments ==
    UNION {{stack[i].documents[id] : id \in DOMAIN stack[i].documents} :
              i \in 1..Len(stack)}
        \cup {final.documents[id] : id \in DOMAIN final.documents}

\* C10: every Document of an invocation's documents, and of the documents
\* main gets, has at most 50 keywords.
C10_AtMost50Keywords ==
    \A document \in AllDocuments : Len(document.keywords) <= TopK

\* main got the Document of a text of 51 words: it has exactly 50 keywords.
C10_Witness ==
    /\ outcome = "returned"
    /\ \E id \in DOMAIN final.documents :
           /\ final.documents[id].filename = Name(<<"epub", 0>>)
           /\ Len(final.documents[id].keywords) = TopK
           /\ Len(Tokens(ToLowercase(Content(<<"epub", 0>>)))) > TopK

=============================================================================
